---- MODULE Spec2Model ----
(***************************************************************************)
(* A model of edx.groups.CohortFormView (src/unnamed/part_000): the form   *)
(* of one cohort, its notification, its validation and its asynchronous    *)
(* save.  Every handler of the view runs to completion (JavaScript is      *)
(* single-threaded), so each is one action; the completion of a save       *)
(* request is an action of its own.                                        *)
(*                                                                         *)
(* Strings the code takes apart (the cohort name, the value of the select) *)
(* are sequences of one-character strings; messages the code only passes   *)
(* around are TLA+ strings.                                                *)
(***************************************************************************)
EXTENDS Integers, Sequences, FiniteSets, TLC

VARIABLES
    rendered,          \* render() has filled this.$el from the template
    nameField,         \* text of the .cohort-name input
    radioYes,          \* .radio-yes is checked
    selectVal,         \* value of the .input-cohort-group-association select
    selectDisabled,    \* its 'disabled' property
    lastRadio,         \* history: value of the latest radio change event on this form
    modelId,           \* this.model.id
    modelName,         \* this.model.get('name')
    initialId,         \* history: this.model.id when the view was constructed
    contentGroups,     \* this.contentGroups
    notification,      \* this.notification: the latest NotificationView
    formNotifications, \* the notification views that are elements of the form
    saveOperation,     \* the Deferred of each saveForm invocation, in call order
    requests           \* the save requests issued on the cohort model, in order

formVars == <<rendered, nameField, radioYes, selectVal, selectDisabled, lastRadio>>
modelVars == <<modelId, modelName, initialId, contentGroups>>
notifVars == <<notification, formNotifications>>
saveVars == <<saveOperation, requests>>
vars == <<formVars, modelVars, notifVars, saveVars>>

-----------------------------------------------------------------------------
(* Bounds of the model. *)

\* saveForm is invoked at most this many times in a behaviour.
MaxCalls == 2

-----------------------------------------------------------------------------
(* JavaScript values. *)

\* undefined, as the id of a model that was never saved.
Undefined == 0
\* null, as the group_id and user_partition_id of fieldData.
Null == -1
\* NaN, the result of parseInt on text that starts with no digit.
NaN == -2

\* The value of the select's first option, which stands for no selection.
None == <<"N", "o", "n", "e">>

Whitespace == {" ", "\t"}
Digits == {"0", "1", "2", "3", "4", "5", "6", "7", "8", "9"}
DigitVal(c) ==
    CASE c = "0" -> 0 [] c = "1" -> 1 [] c = "2" -> 2 [] c = "3" -> 3
      [] c = "4" -> 4 [] c = "5" -> 5 [] c = "6" -> 6 [] c = "7" -> 7
      [] c = "8" -> 8 [] c = "9" -> 9

\* String.prototype.trim: white space removed from both ends.
RECURSIVE TrimLeft(_)
TrimLeft(s) ==
    IF s # << >> /\ Head(s) \in Whitespace THEN TrimLeft(Tail(s)) ELSE s

RECURSIVE TrimRight(_)
TrimRight(s) ==
    IF s # << >> /\ s[Len(s)] \in Whitespace
    THEN TrimRight(SubSeq(s, 1, Len(s) - 1))
    ELSE s

Trim(s) == TrimRight(TrimLeft(s))

\* String.prototype.split on a one-character separator: the pieces between
\* the separators, in order (one piece more than there are separators).
RECURSIVE Split(_, _)
Split(s, sep) ==
    IF \E i \in 1..Len(s) : s[i] = sep
    THEN LET i == CHOOSE k \in 1..Len(s) :
                    s[k] = sep /\ \A j \in 1..(k - 1) : s[j] # sep
         IN  <<SubSeq(s, 1, i - 1)>> \o Split(SubSeq(s, i + 1, Len(s)), sep)
    ELSE <<s>>

\* parseInt without a radix, on decimal text: leading white space is skipped,
\* the longest run of digits is read, and NaN is the result if there is none.
RECURSIVE DigitsValue(_, _)
DigitsValue(s, acc) ==
    IF s # << >> /\ Head(s) \in Digits
    THEN DigitsValue(Tail(s), 10 * acc + DigitVal(Head(s)))
    ELSE acc

ParseInt(s) ==
    LET t == TrimLeft(s)
    IN  IF t # << >> /\ Head(t) \in Digits THEN DigitsValue(t, 0) ELSE NaN

\* parseInt(ids[k]): ids[k] is undefined past the end of ids, and
\* parseInt(undefined) is NaN.
ParseIntAt(ids, k) == IF k <= Len(ids) THEN ParseInt(ids[k]) ELSE NaN

-----------------------------------------------------------------------------
(* The inputs of the model. *)

\* Texts the user types into the name field.
NameInputs == { << >>, <<" ">>, <<" ", "a", " ">> }

\* A content group model: its id and user_partition_id attributes.
Group(id, partition) == [id |-> id, user_partition_id |-> partition]

\* The values of the select's options: 'None', one existing content group, and
\* a pair that shares its id with one group and its partition with another.
SelectValues == { None, <<"1", ":", "5", "0">>, <<"2", ":", "5", "0">> }

\* options.contentGroups of the constructor.
ContentGroupLists == { <<Group(1, 50), Group(2, 51)>> }

\* The cohort the view is constructed for: a new one (no id, the empty default
\* name) or one the server already knows.
InitialCohorts == { [id |-> Undefined, name |-> << >>], [id |-> 1, name |-> <<"b">>] }

\* The responses to a successful save: the cohort as the server stores it, of
\* which the view reads the id.
ServerResponses == { [id |-> 1] }

\* Bodies of the response to a failed save (result.responseText).
ResponseTexts ==
    { "", "<h1>Server Error (500)</h1>", "null", "{}", "{\"error\": \"\"}",
      "{\"error\": \"A cohort with the same name already exists.\"}" }

\* showMessage as the owner of the form calls it once a save has succeeded.
CallerMessages == { [message |-> "Saved cohort", type |-> "", details |-> << >>] }

\* showNotification as a caller may use it directly.
CallerNotifications ==
    { [type |-> "warning", title |-> "This cohort has no students", details |-> << >>] }

-----------------------------------------------------------------------------
(* The notification. *)

NoView == 0

\* this.notification before any notification was shown (undefined).
NoNotification == [view |-> NoView, type |-> "", title |-> "", details |-> << >>]

\* new NotificationView: a view that is not any element of the form.
NewView(form) == CHOOSE v \in 1..(Cardinality(form) + 1) : v \notin form

\* Mutant of removeNotification: the view stays in the form.
removeNotificationKept(notif, form) == form

\* removeNotification: the form's elements once this.notification, if there is
\* one, has been removed; this.notification itself keeps the removed view.
removeNotification(notif, form) ==
    IF notif.view # NoView THEN form \ {notif.view} ELSE form

\* showNotification(options, beforeElement): the new this.notification and
\* the form's notification elements.  beforeElement is TRUE when the jQuery
\* object matches an element of the form, FALSE when it matches none
\* (before() then inserts nothing).
showNotification(options, beforeElement, notif, form) ==
    LET removed == removeNotification(notif, form)
        view == NewView(removed)
    IN  [notification |-> [view |-> view, type |-> options.type,
                           title |-> options.title, details |-> options.details],
         form |-> IF beforeElement THEN removed \cup {view} ELSE removed]

\* this.$('.form-fields'): an element of the rendered template.
FormFields == rendered

\* Mutant of showMessage: the type passed is ignored.
showMessageDefaultType(message, type, details, notif, form) ==
    showNotification(
        [type |-> "confirmation", title |-> message, details |-> details],
        FormFields, notif, form)

\* showMessage(message, type, details); an absent type is the empty string.
showMessage(message, type, details, notif, form) ==
    showNotification(
        [type |-> IF type # "" THEN type ELSE "confirmation",
         title |-> message, details |-> details],
        FormFields, notif, form)

-----------------------------------------------------------------------------
(* Reading the form. *)

hasAssociatedContentGroup == radioYes

\* The result of getSelectedContentGroup when it returns null.
NoGroup == Group(Null, Null)

\* Mutant of getSelectedContentGroup: the user_partition_id is not compared.
getSelectedContentGroupById ==
    IF ~hasAssociatedContentGroup \/ selectVal = None
    THEN NoGroup
    ELSE LET ids == Split(selectVal, ":")
             groupId == ParseIntAt(ids, 1)
             matches == { i \in 1..Len(contentGroups) : contentGroups[i].id = groupId }
         IN  IF matches # {}
             THEN contentGroups[CHOOSE i \in matches : \A j \in matches : i <= j]
             ELSE NoGroup

\* getSelectedContentGroup: the first content group whose id and
\* user_partition_id are the two numbers of the select's value.
getSelectedContentGroup ==
    IF ~hasAssociatedContentGroup \/ selectVal = None
    THEN NoGroup
    ELSE LET ids == Split(selectVal, ":")
             groupId == ParseIntAt(ids, 1)
             userPartitionId == ParseIntAt(ids, 2)
             matches == { i \in 1..Len(contentGroups) :
                            /\ contentGroups[i].id = groupId
                            /\ contentGroups[i].user_partition_id = userPartitionId }
         IN  IF matches # {}
             THEN contentGroups[CHOOSE i \in matches : \A j \in matches : i <= j]
             ELSE NoGroup

\* Mutant of getUpdatedCohortName: the text is not trimmed.
getUpdatedCohortNameUntrimmed ==
    IF nameField # << >> THEN nameField ELSE modelName

\* getUpdatedCohortName: an empty text is falsy.
getUpdatedCohortName ==
    IF nameField # << >> THEN Trim(nameField) ELSE modelName

\* The fieldData object of saveForm.
FieldData ==
    LET selectedContentGroup == getSelectedContentGroup
    IN  [name |-> getUpdatedCohortName,
         group_id |-> IF selectedContentGroup # NoGroup
                      THEN selectedContentGroup.id ELSE Null,
         user_partition_id |-> IF selectedContentGroup # NoGroup
                               THEN selectedContentGroup.user_partition_id ELSE Null]

NameRequired == "You must specify a name for the cohort"
NoContentGroupSelected == "You did not select a content group"
ContentGroupMissing == "The selected content group does not exist"

\* validate(fieldData): the error messages, in the order they are pushed.
validate(fieldData) ==
    (IF fieldData.name = << >> THEN <<NameRequired>> ELSE << >>)
    \o (IF hasAssociatedContentGroup /\ fieldData.group_id = Null
        THEN IF selectVal = None
             THEN <<NoContentGroupSelected>>
             ELSE <<ContentGroupMissing>>
        ELSE << >>)

-----------------------------------------------------------------------------
(* The Deferred of a saveForm invocation and the response of a failed save. *)

\* $.Deferred(): resolve and reject act on a pending Deferred only.
resolve(state) == IF state = "pending" THEN "resolved" ELSE state
reject(state) == IF state = "pending" THEN "rejected" ELSE state

CannotBeSaved == "The cohort cannot be saved"
CannotBeAdded == "The cohort cannot be added"
GenericError == "We've encountered an error. Refresh your browser and then try again."

\* JSON.parse of a response body: it throws, or gives null, or gives an object
\* whose 'error' property is a string or is missing.
JSONParse(text) ==
    CASE text = "null" -> [kind |-> "null", hasError |-> FALSE, error |-> ""]
      [] text = "{}" -> [kind |-> "object", hasError |-> FALSE, error |-> ""]
      [] text = "{\"error\": \"\"}" ->
            [kind |-> "object", hasError |-> TRUE, error |-> ""]
      [] text = "{\"error\": \"A cohort with the same name already exists.\"}" ->
            [kind |-> "object", hasError |-> TRUE,
             error |-> "A cohort with the same name already exists."]
      [] OTHER -> [kind |-> "throws", hasError |-> FALSE, error |-> ""]

\* Mutant of failMessage: an empty 'error' is shown as it is.
failMessageUnchecked(responseText) ==
    LET jsonResponse == JSONParse(responseText)
    IN  IF jsonResponse.kind = "object" /\ jsonResponse.hasError
        THEN jsonResponse.error ELSE GenericError

\* The message of the fail callback: jsonResponse.error unless JSON.parse or
\* the property access threw, and the generic message if that is falsy
\* (null, undefined or the empty string).
failMessage(responseText) ==
    LET jsonResponse == JSONParse(responseText)
        errorMessage == IF jsonResponse.kind = "object" /\ jsonResponse.hasError
                        THEN jsonResponse.error ELSE ""
    IN  IF errorMessage = "" THEN GenericError ELSE errorMessage

-----------------------------------------------------------------------------
(* The view after construction: nothing is rendered, so the form has no     *)
(* field (their values read as undefined, which is falsy like the values    *)
(* they start with here), no notification was shown and nothing was saved.  *)

Init ==
    /\ rendered = FALSE
    /\ nameField = << >>
    /\ radioYes = FALSE
    /\ selectVal = None
    /\ selectDisabled = TRUE
    /\ lastRadio = "none"
    /\ \E cohort \in InitialCohorts :
          /\ modelId = cohort.id
          /\ modelName = cohort.name
          /\ initialId = cohort.id
    /\ contentGroups \in ContentGroupLists
    /\ notification = NoNotification
    /\ formNotifications = {}
    /\ saveOperation = << >>
    /\ requests = << >>

-----------------------------------------------------------------------------
(* render *)

\* The fields of the form the template renders for a cohort of the given name.
\* The template is not part of the view's source: the form is taken to show the
\* cohort's name and either no association with a content group (the 'no'
\* radio button checked, the select on 'None' and disabled) or an association
\* (the 'yes' radio button checked, the select enabled on any of its options).
RenderedForms(name) ==
    { [nameField |-> name, radioYes |-> FALSE, selectVal |-> None,
       selectDisabled |-> TRUE] }
    \cup { [nameField |-> name, radioYes |-> TRUE, selectVal |-> v,
            selectDisabled |-> FALSE] : v \in SelectValues }

\* this.$el.html(...): the content of the form is replaced, so its fields are
\* new elements and no notification is an element of it any more.
renderForm(f) ==
    /\ rendered' = TRUE
    /\ nameField' = f.nameField
    /\ radioYes' = f.radioYes
    /\ selectVal' = f.selectVal
    /\ selectDisabled' = f.selectDisabled
    /\ lastRadio' = "none"
    /\ formNotifications' = {}

Render ==
    /\ \E f \in RenderedForms(modelName) : renderForm(f)
    /\ UNCHANGED <<modelVars, notification, saveVars>>

-----------------------------------------------------------------------------
(* The user at the rendered form. *)

TypeName(text) ==
    /\ rendered
    /\ nameField' = text
    /\ UNCHANGED <<rendered, radioYes, selectVal, selectDisabled, lastRadio>>
    /\ UNCHANGED <<modelVars, notifVars, saveVars>>

\* A disabled select takes no input.
SelectOption(value) ==
    /\ rendered
    /\ ~selectDisabled
    /\ selectVal' = value
    /\ UNCHANGED <<rendered, nameField, radioYes, selectDisabled, lastRadio>>
    /\ UNCHANGED <<modelVars, notifVars, saveVars>>

\* Mutant of groupsEnabled: any value that is not empty enables the select.
groupsEnabledTruthy(value) == value # ""

\* var groupsEnabled = target.val() === 'yes'
groupsEnabled(value) == value = "yes"

\* onRadioButtonChange, for the change event of the radio button of the given
\* value; the browser has checked that button (and so unchecked the other).
onRadioButtonChange(value) ==
    /\ rendered
    /\ radioYes' = (value = "yes")
    /\ selectVal' = IF ~groupsEnabled(value) THEN None ELSE selectVal
    /\ selectDisabled' = ~groupsEnabled(value)
    /\ lastRadio' = value
    /\ UNCHANGED <<rendered, nameField>>
    /\ UNCHANGED <<modelVars, notifVars, saveVars>>

-----------------------------------------------------------------------------
(* The notification operations, as the owner of the view calls them. *)

ShowNotification(options, beforeElement) ==
    LET shown == showNotification(options, beforeElement, notification, formNotifications)
    IN  /\ notification' = shown.notification
        /\ formNotifications' = shown.form
        /\ UNCHANGED <<formVars, modelVars, saveVars>>

ShowMessage(m) ==
    LET shown == showMessage(m.message, m.type, m.details, notification, formNotifications)
    IN  /\ notification' = shown.notification
        /\ formNotifications' = shown.form
        /\ UNCHANGED <<formVars, modelVars, saveVars>>

RemoveNotification ==
    /\ formNotifications' = removeNotification(notification, formNotifications)
    /\ UNCHANGED <<notification, formVars, modelVars, saveVars>>

-----------------------------------------------------------------------------
(* saveForm *)

\* Mutant of isUpdate: the test is inverted.
isUpdateInverted == modelId = Undefined

\* var isUpdate = !_.isUndefined(this.model.id)
isUpdate == modelId # Undefined

\* cohort.save(fieldData, {patch: isUpdate, wait: true}) by the given
\* invocation of saveForm: one request, not yet answered.
save(call, fieldData, patch) ==
    <<[call |-> call, patch |-> patch, attrs |-> fieldData, state |-> "pending"]>>

\* Mutant of saveRequests: the save is not guarded by the validation.
saveRequestsUnchecked(call, fieldData, errorMessages) == save(call, fieldData, isUpdate)

\* A request once its callback has run: its attributes are not read again, so
\* what is kept is who issued it, whether it was a patch, and the outcome.
answered(request, outcome) ==
    [call |-> request.call, patch |-> request.patch,
     attrs |-> [name |-> << >>, group_id |-> Null, user_partition_id |-> Null],
     state |-> outcome]

\* The requests saveForm issues.
saveRequests(call, fieldData, errorMessages) ==
    IF Len(errorMessages) > 0 THEN << >> ELSE save(call, fieldData, isUpdate)

SaveForm ==
    /\ Len(saveOperation) < MaxCalls
    /\ LET call == Len(saveOperation) + 1
           removed == removeNotification(notification, formNotifications)
           fieldData == FieldData
           errorMessages == validate(fieldData)
           shown == showMessage(IF isUpdate THEN CannotBeSaved ELSE CannotBeAdded,
                                "error", errorMessages, notification, removed)
       IN  /\ requests' = requests \o saveRequests(call, fieldData, errorMessages)
           /\ IF Len(errorMessages) > 0
              THEN /\ notification' = shown.notification
                   /\ formNotifications' = shown.form
                   /\ saveOperation' = Append(saveOperation, reject("pending"))
              ELSE /\ notification' = notification
                   /\ formNotifications' = removed
                   /\ saveOperation' = Append(saveOperation, "pending")
    /\ UNCHANGED <<formVars, modelVars>>

\* Mutant of deferredOf: the Deferred of the latest invocation, as if the view
\* kept one saveOperation for all invocations.
deferredOfLatest(r) == Len(saveOperation)

\* The Deferred the callbacks of a request settle: the saveOperation of the
\* invocation that issued it.
deferredOf(r) == requests[r].call

\* Mutant of cohortId: a property the response does not have is read.
cohortIdMissing(result) == Undefined

\* cohort.id = result.id
cohortId(result) == result.id

\* The done callback of the request, for the given response.  With wait: true
\* the attributes sent are set on the model on success.
SaveDone(r, result) ==
    /\ requests[r].state = "pending"
    /\ requests' = [requests EXCEPT ![r] = answered(@, "done")]
    /\ modelName' = requests[r].attrs.name
    /\ modelId' = cohortId(result)
    /\ \E f \in RenderedForms(modelName') : renderForm(f)
    /\ saveOperation' = [saveOperation EXCEPT ![deferredOf(r)] = resolve(@)]
    /\ UNCHANGED <<initialId, contentGroups, notification>>

\* The fail callback of the request, for a response of the given body.
SaveFail(r, responseText) ==
    /\ requests[r].state = "pending"
    /\ requests' = [requests EXCEPT ![r] = answered(@, "failed")]
    /\ LET shown == showMessage(failMessage(responseText), "error", << >>,
                                notification, formNotifications)
       IN  /\ notification' = shown.notification
           /\ formNotifications' = shown.form
    /\ saveOperation' = [saveOperation EXCEPT ![deferredOf(r)] = reject(@)]
    /\ UNCHANGED <<formVars, modelVars>>

-----------------------------------------------------------------------------

Next ==
    \/ Render
    \/ \E text \in NameInputs : TypeName(text)
    \/ \E value \in SelectValues : SelectOption(value)
    \/ \E value \in {"yes", "no"} : onRadioButtonChange(value)
    \/ \E options \in CallerNotifications, beforeElement \in BOOLEAN :
            ShowNotification(options, beforeElement)
    \/ \E m \in CallerMessages : ShowMessage(m)
    \/ RemoveNotification
    \/ SaveForm
    \/ \E r \in 1..Len(requests), result \in ServerResponses : SaveDone(r, result)
    \/ \E r \in 1..Len(requests), text \in ResponseTexts : SaveFail(r, text)

Spec == Init /\ [][Next]_vars

-----------------------------------------------------------------------------
(* What the properties below speak of. *)

\* A step is an invocation of saveForm exactly when it creates a Deferred.
SaveFormStep == Len(saveOperation') = Len(saveOperation) + 1

\* The step answers request r with success, or with failure.
DoneStep(r) == requests[r].state = "pending" /\ requests'[r].state = "done"
FailStep(r) == requests[r].state = "pending" /\ requests'[r].state = "failed"

\* The requests issued by the i-th invocation of saveForm.
RequestsOf(i) == { r \in 1..Len(requests) : requests[r].call = i }

\* The latest notification is an element of the form.
Displayed(notif, form) == notif.view # NoView /\ notif.view \in form

Elements(seq) == { seq[i] : i \in 1..Len(seq) }

\* The decimal text of a natural number, and the value of the select's option
\* for a content group: its id and its user_partition_id with a colon between.
DigitChar(d) ==
    CASE d = 0 -> "0" [] d = 1 -> "1" [] d = 2 -> "2" [] d = 3 -> "3" [] d = 4 -> "4"
      [] d = 5 -> "5" [] d = 6 -> "6" [] d = 7 -> "7" [] d = 8 -> "8" [] d = 9 -> "9"

RECURSIVE Decimal(_)
Decimal(n) == IF n < 10 THEN <<DigitChar(n)>> ELSE Decimal(n \div 10) \o <<DigitChar(n % 10)>>

OptionValue(group) == Decimal(group.id) \o <<":">> \o Decimal(group.user_partition_id)

-----------------------------------------------------------------------------
(* C1: when saveForm finds a validation error it issues no save request,    *)
(* shows an error notification titled "The cohort cannot be saved" if the   *)
(* model has an id and "The cohort cannot be added" if it has none, with    *)
(* the validation messages as its details (inserted before the form fields  *)
(* when the form is rendered), and returns a rejected promise.              *)

C1_ValidationFailure ==
    [][ (SaveFormStep /\ validate(FieldData) # << >>) =>
            /\ requests' = requests
            /\ notification'.type = "error"
            /\ notification'.title =
                    IF modelId # Undefined THEN "The cohort cannot be saved"
                                           ELSE "The cohort cannot be added"
            /\ notification'.details = validate(FieldData)
            /\ (rendered => Displayed(notification', formNotifications'))
            /\ saveOperation'[Len(saveOperation')] = "rejected" ]_vars

C1_Witness ==
    /\ \E i \in 1..Len(saveOperation) :
            saveOperation[i] = "rejected" /\ RequestsOf(i) = {}
    /\ notification.type = "error"
    /\ notification.title = "The cohort cannot be saved"
    /\ notification.details = <<NameRequired, ContentGroupMissing>>
    /\ Displayed(notification, formNotifications)

-----------------------------------------------------------------------------
(* C2: an invocation of saveForm whose field data passes validation issues  *)
(* exactly one save request, a patch if the model has an id when saveForm   *)
(* is called and a create if it has none; no invocation issues more than    *)
(* one request, and nothing but saveForm issues any.                        *)

C2_OneRequest ==
    /\ [](\A i \in 1..Len(saveOperation) : Cardinality(RequestsOf(i)) <= 1)
    /\ [][ /\ (SaveFormStep /\ validate(FieldData) = << >>) =>
                /\ Len(requests') = Len(requests) + 1
                /\ SubSeq(requests', 1, Len(requests)) = requests
                /\ requests'[Len(requests')].call = Len(saveOperation')
                /\ requests'[Len(requests')].state = "pending"
                /\ requests'[Len(requests')].patch = (modelId # Undefined)
           /\ (SaveFormStep /\ validate(FieldData) # << >>) => requests' = requests
           /\ ~SaveFormStep => Len(requests') = Len(requests) ]_vars

C2_Witness ==
    \E r1, r2 \in 1..Len(requests) :
        /\ requests[r1].call = 1 /\ ~requests[r1].patch
        /\ requests[r2].call = 2 /\ requests[r2].patch

-----------------------------------------------------------------------------
(* C3: when the save request fails, an error notification is shown whose    *)
(* title is the 'error' of the response if its body parses as JSON and that *)
(* field is not empty, and the generic message otherwise; the promise of    *)
(* the invocation is rejected.                                              *)

ExpectedFailTitle(text) ==
    IF text = "{\"error\": \"A cohort with the same name already exists.\"}"
    THEN "A cohort with the same name already exists."
    ELSE "We've encountered an error. Refresh your browser and then try again."

C3_SaveFailure ==
    [][ \A r \in 1..Len(requests) : FailStep(r) => \A text \in ResponseTexts :
            SaveFail(r, text) =>
                /\ notification'.type = "error"
                /\ notification'.title = ExpectedFailTitle(text)
                /\ (rendered => Displayed(notification', formNotifications'))
                /\ saveOperation'[requests[r].call] = "rejected" ]_vars

C3_Witness ==
    /\ \E r \in 1..Len(requests) :
            requests[r].state = "failed" /\ saveOperation[requests[r].call] = "rejected"
    /\ notification.type = "error"
    /\ notification.title = "A cohort with the same name already exists."
    /\ Displayed(notification, formNotifications)

-----------------------------------------------------------------------------
(* C4, as claimed: once the save request completes, a success notification  *)
(* is displayed in the form if it succeeded and an error notification if it *)
(* failed.                                                                  *)

C4_Original ==
    [][ \A r \in 1..Len(requests) :
            /\ DoneStep(r) =>
                    /\ notification'.type = "confirmation"
                    /\ Displayed(notification', formNotifications')
            /\ FailStep(r) =>
                    /\ notification'.type = "error"
                    /\ (rendered => Displayed(notification', formNotifications')) ]_vars

(* C4, amended: once the save request completes, an error notification is   *)
(* shown (inserted before the form fields of a rendered form) if it failed; *)
(* if it succeeded saveForm shows no notification: the form is rendered     *)
(* anew, no notification is displayed in it, and the promise is resolved.   *)

C4_Outcome ==
    [][ \A r \in 1..Len(requests) :
            /\ DoneStep(r) =>
                    /\ rendered'
                    /\ notification' = notification
                    /\ formNotifications' = {}
                    /\ saveOperation'[requests[r].call] = "resolved"
            /\ FailStep(r) =>
                    /\ notification'.type = "error"
                    /\ (rendered => Displayed(notification', formNotifications')) ]_vars

C4_Witness ==
    /\ \E r \in 1..Len(requests) :
            requests[r].state = "done" /\ saveOperation[requests[r].call] = "resolved"
    /\ notification.type = "error"
    /\ rendered
    /\ formNotifications = {}

-----------------------------------------------------------------------------
(* C5: every save request saveForm issues, and so every request that is    *)
(* outstanding, carries a name that is not empty: the trimmed text of the   *)
(* name field, or the model's name when the field is empty; if that name is *)
(* empty no request is issued and the error "You must specify a name for    *)
(* the cohort" is reported.                                                 *)

ExpectedName == IF nameField # << >> THEN Trim(nameField) ELSE modelName

C5_RequestName ==
    /\ [](\A r \in 1..Len(requests) :
            requests[r].state = "pending" => requests[r].attrs.name # << >>)
    /\ [][ SaveFormStep =>
                IF ExpectedName # << >>
                THEN \A r \in (Len(requests) + 1)..Len(requests') :
                        requests'[r].attrs.name = ExpectedName
                ELSE /\ requests' = requests
                     /\ notification'.type = "error"
                     /\ "You must specify a name for the cohort"
                            \in Elements(notification'.details) ]_vars

C5_Witness ==
    /\ nameField = <<" ", "a", " ">>
    /\ modelName = << >>
    /\ \E r \in 1..Len(requests) :
            /\ requests[r].call = Len(saveOperation)
            /\ requests[r].state = "pending"
            /\ requests[r].attrs.name = <<"a">>

-----------------------------------------------------------------------------
(* C6: validate reports exactly one content-group error when the 'yes'      *)
(* radio button is checked and the select's value is the option of no       *)
(* content group of contentGroups: "You did not select a content group" for *)
(* 'None', "The selected content group does not exist" for any other value; *)
(* it reports none when 'yes' is not checked or the value is the option of  *)
(* a content group.                                                         *)

IsContentGroupError(message) ==
    message \in { "You did not select a content group",
                  "The selected content group does not exist" }

C6_ContentGroupCheck ==
    LET found == \E i \in 1..Len(contentGroups) :
                    selectVal = OptionValue(contentGroups[i])
        errors == SelectSeq(validate(FieldData), IsContentGroupError)
    IN  /\ (radioYes /\ ~found) <=> (FieldData.group_id = Null /\ radioYes)
        /\ IF radioYes /\ ~found
           THEN errors = IF selectVal = None
                         THEN <<"You did not select a content group">>
                         ELSE <<"The selected content group does not exist">>
           ELSE errors = << >>

C6_Witness ==
    /\ radioYes
    /\ selectVal = <<"2", ":", "5", "0">>
    /\ Len(saveOperation) > 0
    /\ saveOperation[Len(saveOperation)] = "rejected"
    /\ notification.details = <<"The selected content group does not exist">>

-----------------------------------------------------------------------------
(* C7: after a radio button change event the select is disabled exactly     *)
(* when the value of the latest event was not 'yes'; an event of another    *)
(* value sets the select to 'None' and a 'yes' event leaves its value as it *)
(* is, so a select disabled after a change event is on 'None'.              *)

C7_RadioButtons ==
    /\ [](lastRadio # "none" =>
            /\ selectDisabled <=> (lastRadio # "yes")
            /\ selectDisabled => selectVal = None)
    /\ [][ \A value \in {"yes", "no"} : onRadioButtonChange(value) =>
                /\ selectDisabled' <=> (value # "yes")
                /\ selectVal' = IF value = "yes" THEN selectVal ELSE None ]_vars

C7_Witness ==
    /\ lastRadio = "no"
    /\ selectDisabled
    /\ selectVal = None
    /\ ~radioYes

-----------------------------------------------------------------------------
(* C8: the promise of an invocation of saveForm is pending exactly while    *)
(* the request of that invocation is outstanding, resolved exactly when     *)
(* that request has succeeded, and rejected exactly when validation failed  *)
(* (no request was issued) or that request has failed; once settled it      *)
(* never changes.                                                           *)

C8_Promise ==
    /\ [](\A i \in 1..Len(saveOperation) :
            /\ saveOperation[i] \in {"pending", "resolved", "rejected"}
            /\ saveOperation[i] = "pending" <=>
                    \E r \in RequestsOf(i) : requests[r].state = "pending"
            /\ saveOperation[i] = "resolved" <=>
                    \E r \in RequestsOf(i) : requests[r].state = "done"
            /\ saveOperation[i] = "rejected" <=>
                    \/ RequestsOf(i) = {}
                    \/ \E r \in RequestsOf(i) : requests[r].state = "failed")
    /\ [][ \A i \in 1..Len(saveOperation) :
                saveOperation[i] # "pending" => saveOperation'[i] = saveOperation[i] ]_vars

\* Two overlapping invocations: the request of the second was answered
\* first, and only the promise of the second is settled.
C8_Witness ==
    /\ Len(saveOperation) = 2
    /\ saveOperation[1] = "pending"
    /\ saveOperation[2] = "resolved"
    /\ \E r \in RequestsOf(2) : requests[r].state = "done"

-----------------------------------------------------------------------------
(* C9: for a model constructed without an id, a request saveForm issues is  *)
(* a create while no save has succeeded and a patch once one has; a         *)
(* successful save sets the model's id to the id of the response.           *)

C9_CreateThenPatch ==
    [][ /\ (initialId = Undefined /\ SaveFormStep) =>
                \A r \in (Len(requests) + 1)..Len(requests') :
                    requests'[r].patch <=>
                        \E d \in 1..Len(requests) : requests[d].state = "done"
        /\ \A r \in 1..Len(requests) : DoneStep(r) =>
                \A result \in ServerResponses : SaveDone(r, result) =>
                    modelId' = result.id /\ modelId' # Undefined ]_vars

C9_Witness ==
    /\ initialId = Undefined
    /\ Len(requests) = 2
    /\ ~requests[1].patch /\ requests[1].state = "done"
    /\ requests[2].patch
    /\ modelId = 1

-----------------------------------------------------------------------------
(* C10: at most one notification view is displayed in the form; showing a   *)
(* notification leaves no other one displayed, starting saveForm removes    *)
(* the one shown before, and a successful save leaves none displayed.       *)

C10_OneNotification ==
    /\ [](Cardinality(formNotifications) <= 1)
    /\ [][ /\ (SaveFormStep /\ validate(FieldData) = << >>) => formNotifications' = {}
           /\ (SaveFormStep /\ validate(FieldData) # << >>) =>
                    formNotifications' \subseteq {notification'.view}
           /\ (\E r \in 1..Len(requests) : FailStep(r)) =>
                    formNotifications' \subseteq {notification'.view}
           /\ (\E r \in 1..Len(requests) : DoneStep(r)) => formNotifications' = {} ]_vars

C10_Witness ==
    /\ Cardinality(formNotifications) = 1
    /\ notification.type = "error"
    /\ \E r \in 1..Len(requests) : requests[r].state = "failed"
    /\ \E r \in 1..Len(requests) : requests[r].state = "done"

====
